---- MODULE Spec2Model ----
(***************************************************************************)
(* Model of the proscore scoring endpoint (route handler POST /api/score)  *)
(* and its in-memory fixed-window rate limiter.                            *)
(*                                                                         *)
(* One request is followed through every await of POST (req).  The other   *)
(* requests run the same synchronous prefix (getRateLimitKey,              *)
(* checkRateLimit, the 429 response) at any point between two steps of the *)
(* followed one and are then suspended at their awaits (others counts      *)
(* them); what they do there reads only their own locals.                  *)
(*                                                                         *)
(* Strings are sequences of one-character strings; a header value as       *)
(* returned by Headers.get is a record [present, val] (present = FALSE is  *)
(* null).  Time is in milliseconds, as returned by Date.now().             *)
(***************************************************************************)
EXTENDS Integers, Sequences, FiniteSets, TLC

VARIABLES now, ticks, sweepAt, store, req, others, chk, win, prev, solo,
          noSweep, inHeaders, outKey,
          ui, storage, call, timer, saved,
          modelText, outScore, outList

vars == <<now, ticks, sweepAt, store, req, others, chk, win, prev, solo,
          noSweep, inHeaders, outKey,
          ui, storage, call, timer, saved,
          modelText, outScore, outList>>

limiterVars == <<now, ticks, sweepAt, store, req, others, chk, win, prev,
                 solo, noSweep>>

keyVars == <<inHeaders, outKey>>

\* the page in the browser: the state of the Page component (ui), the
\* localStorage item, the handleSubmit call in progress, the armed timeout
\* of the countdown effect and the number of analyses saved so far
pageVars == <<ui, storage, call, timer, saved>>

\* a text returned by the generation service and what POST parses from it
textVars == <<modelText, outScore, outList>>

(***************************************************************************)
(* Program constants                                                       *)
(***************************************************************************)
RATE_LIMIT == 10

RATE_LIMIT_WINDOW == 1000

SWEEP_INTERVAL == 60000

UNKNOWN_CLIENT == <<"u","n","k","n","o","w","n","-","c","l","i","e","n","t">>

(***************************************************************************)
(* Bounds of the model                                                     *)
(***************************************************************************)
\* number of times the clock advances in one behaviour
MaxTicks == 2

\* longest x-forwarded-for value enumerated for getRateLimitKey
MaxLen == 3

\* other requests suspended at an await at the same time
MaxInFlight == 1

\* amounts by which the clock advances between two events
Deltas == {1, RATE_LIMIT_WINDOW}

\* clock advance between the two Date.now() reads of a denied request
SyncDelays == {0, 1}

(***************************************************************************)
(* Strings                                                                 *)
(***************************************************************************)
Chars == {"1", "2", ",", " "}

Absent == [present |-> FALSE, val |-> <<>>]

Val(s) == [present |-> TRUE, val |-> s]

\* JavaScript truthiness of a string-or-null
Truthy(h) == h.present /\ h.val # <<>>

RECURSIVE TrimStart(_)
TrimStart(s) ==
  IF s # <<>> /\ Head(s) = " " THEN TrimStart(Tail(s)) ELSE s

RECURSIVE TrimEnd(_)
TrimEnd(s) ==
  IF s # <<>> /\ s[Len(s)] = " " THEN TrimEnd(SubSeq(s, 1, Len(s) - 1)) ELSE s

\* String.prototype.trim
Trim(s) == TrimEnd(TrimStart(s))

\* s.split(",")[0] : the text before the first comma (all of s if none)
RECURSIVE SplitFirst(_)
SplitFirst(s) ==
  IF s = <<>> \/ Head(s) = "," THEN <<>>
  ELSE <<Head(s)>> \o SplitFirst(Tail(s))

(***************************************************************************)
(* getRateLimitKey                                                         *)
(***************************************************************************)
\* getRateLimitKey that tests the headers against null instead of for
\* truthiness
getRateLimitKey_presentOnly(h) ==
  LET forwarded      == h.xff
      realIp         == h.realIp
      cfConnectingIp == h.cf
      xClientIp      == h.clientIp
  IN IF cfConnectingIp.present THEN cfConnectingIp.val
     ELSE IF forwarded.present THEN Trim(SplitFirst(forwarded.val))
     ELSE IF realIp.present THEN realIp.val
     ELSE IF xClientIp.present THEN xClientIp.val
     ELSE UNKNOWN_CLIENT

\* getRateLimitKey that looks at x-forwarded-for before cf-connecting-ip
getRateLimitKey_forwardedFirst(h) ==
  LET forwarded      == h.xff
      realIp         == h.realIp
      cfConnectingIp == h.cf
      xClientIp      == h.clientIp
  IN IF Truthy(forwarded) THEN Trim(SplitFirst(forwarded.val))
     ELSE IF Truthy(cfConnectingIp) THEN cfConnectingIp.val
     ELSE IF Truthy(realIp) THEN realIp.val
     ELSE IF Truthy(xClientIp) THEN xClientIp.val
     ELSE UNKNOWN_CLIENT

getRateLimitKey(h) ==
  LET forwarded      == h.xff
      realIp         == h.realIp
      cfConnectingIp == h.cf
      xClientIp      == h.clientIp
  IN IF Truthy(cfConnectingIp) THEN cfConnectingIp.val
     ELSE IF Truthy(forwarded) THEN Trim(SplitFirst(forwarded.val))
     ELSE IF Truthy(realIp) THEN realIp.val
     ELSE IF Truthy(xClientIp) THEN xClientIp.val
     ELSE UNKNOWN_CLIENT

(***************************************************************************)
(* The rate-limit map and checkRateLimit                                   *)
(***************************************************************************)
EmptyMap == [k \in {} |-> 0]

MapSet(m, k, v) == [x \in DOMAIN m \cup {k} |-> IF x = k THEN v ELSE m[x]]

MapDelete(m, ks) == [x \in DOMAIN m \ ks |-> m[x]]

\* checkRateLimit with "count > RATE_LIMIT" as the test of line 58
checkRateLimit_gt(st, key, t) ==
  LET windowEnd == t + RATE_LIMIT_WINDOW
  IN IF key \notin DOMAIN st \/ t > st[key].resetTime
     THEN [store  |-> MapSet(st, key, [count |-> 1, resetTime |-> windowEnd]),
           result |-> [allowed |-> TRUE, resetTime |-> windowEnd,
                       remaining |-> RATE_LIMIT - 1]]
     ELSE IF st[key].count > RATE_LIMIT
     THEN [store  |-> st,
           result |-> [allowed |-> FALSE, resetTime |-> st[key].resetTime,
                       remaining |-> 0]]
     ELSE LET count == st[key].count + 1
          IN [store  |-> MapSet(st, key, [count |-> count,
                                          resetTime |-> st[key].resetTime]),
              result |-> [allowed |-> TRUE, resetTime |-> st[key].resetTime,
                          remaining |-> RATE_LIMIT - count]]

\* checkRateLimit that stores windowEnd as the resetTime of an incremented
\* entry (line 65)
checkRateLimit_extend(st, key, t) ==
  LET windowEnd == t + RATE_LIMIT_WINDOW
  IN IF key \notin DOMAIN st \/ t > st[key].resetTime
     THEN [store  |-> MapSet(st, key, [count |-> 1, resetTime |-> windowEnd]),
           result |-> [allowed |-> TRUE, resetTime |-> windowEnd,
                       remaining |-> RATE_LIMIT - 1]]
     ELSE IF st[key].count >= RATE_LIMIT
     THEN [store  |-> st,
           result |-> [allowed |-> FALSE, resetTime |-> st[key].resetTime,
                       remaining |-> 0]]
     ELSE LET count == st[key].count + 1
          IN [store  |-> MapSet(st, key, [count |-> count,
                                          resetTime |-> windowEnd]),
              result |-> [allowed |-> TRUE, resetTime |-> windowEnd,
                          remaining |-> RATE_LIMIT - count]]

\* checkRateLimit that increments the count before the test of line 58
checkRateLimit_countDenied(st, key, t) ==
  LET windowEnd == t + RATE_LIMIT_WINDOW
  IN IF key \notin DOMAIN st \/ t > st[key].resetTime
     THEN [store  |-> MapSet(st, key, [count |-> 1, resetTime |-> windowEnd]),
           result |-> [allowed |-> TRUE, resetTime |-> windowEnd,
                       remaining |-> RATE_LIMIT - 1]]
     ELSE LET count == st[key].count + 1
              after == MapSet(st, key, [count |-> count,
                                        resetTime |-> st[key].resetTime])
          IN IF count > RATE_LIMIT
             THEN [store  |-> after,
                   result |-> [allowed |-> FALSE,
                               resetTime |-> st[key].resetTime,
                               remaining |-> 0]]
             ELSE [store  |-> after,
                   result |-> [allowed |-> TRUE,
                               resetTime |-> st[key].resetTime,
                               remaining |-> RATE_LIMIT - count]]

\* checkRateLimit that resets only an exhausted entry when its window is over
checkRateLimit_carry(st, key, t) ==
  LET windowEnd == t + RATE_LIMIT_WINDOW
  IN IF key \notin DOMAIN st
        \/ (t > st[key].resetTime /\ st[key].count >= RATE_LIMIT)
     THEN [store  |-> MapSet(st, key, [count |-> 1, resetTime |-> windowEnd]),
           result |-> [allowed |-> TRUE, resetTime |-> windowEnd,
                       remaining |-> RATE_LIMIT - 1]]
     ELSE IF st[key].count >= RATE_LIMIT
     THEN [store  |-> st,
           result |-> [allowed |-> FALSE, resetTime |-> st[key].resetTime,
                       remaining |-> 0]]
     ELSE LET count == st[key].count + 1
          IN [store  |-> MapSet(st, key, [count |-> count,
                                          resetTime |-> st[key].resetTime]),
              result |-> [allowed |-> TRUE, resetTime |-> st[key].resetTime,
                          remaining |-> RATE_LIMIT - count]]

\* checkRateLimit that starts a new map when it opens a window
checkRateLimit_clear(st, key, t) ==
  LET windowEnd == t + RATE_LIMIT_WINDOW
  IN IF key \notin DOMAIN st \/ t > st[key].resetTime
     THEN [store  |-> MapSet(EmptyMap, key,
                             [count |-> 1, resetTime |-> windowEnd]),
           result |-> [allowed |-> TRUE, resetTime |-> windowEnd,
                       remaining |-> RATE_LIMIT - 1]]
     ELSE IF st[key].count >= RATE_LIMIT
     THEN [store  |-> st,
           result |-> [allowed |-> FALSE, resetTime |-> st[key].resetTime,
                       remaining |-> 0]]
     ELSE LET count == st[key].count + 1
          IN [store  |-> MapSet(st, key, [count |-> count,
                                          resetTime |-> st[key].resetTime]),
              result |-> [allowed |-> TRUE, resetTime |-> st[key].resetTime,
                          remaining |-> RATE_LIMIT - count]]

\* checkRateLimit whose window ends one millisecond early (line 48)
checkRateLimit_short(st, key, t) ==
  LET windowEnd == t + RATE_LIMIT_WINDOW - 1
  IN IF key \notin DOMAIN st \/ t > st[key].resetTime
     THEN [store  |-> MapSet(st, key, [count |-> 1, resetTime |-> windowEnd]),
           result |-> [allowed |-> TRUE, resetTime |-> windowEnd,
                       remaining |-> RATE_LIMIT - 1]]
     ELSE IF st[key].count >= RATE_LIMIT
     THEN [store  |-> st,
           result |-> [allowed |-> FALSE, resetTime |-> st[key].resetTime,
                       remaining |-> 0]]
     ELSE LET count == st[key].count + 1
          IN [store  |-> MapSet(st, key, [count |-> count,
                                          resetTime |-> st[key].resetTime]),
              result |-> [allowed |-> TRUE, resetTime |-> st[key].resetTime,
                          remaining |-> RATE_LIMIT - count]]

\* checkRateLimit that returns {allowed, resetTime} for an incremented entry
\* (lines 66-70 without remaining, as the return type allows)
checkRateLimit_noRemaining(st, key, t) ==
  LET windowEnd == t + RATE_LIMIT_WINDOW
  IN IF key \notin DOMAIN st \/ t > st[key].resetTime
     THEN [store  |-> MapSet(st, key, [count |-> 1, resetTime |-> windowEnd]),
           result |-> [allowed |-> TRUE, resetTime |-> windowEnd,
                       remaining |-> RATE_LIMIT - 1]]
     ELSE IF st[key].count >= RATE_LIMIT
     THEN [store  |-> st,
           result |-> [allowed |-> FALSE, resetTime |-> st[key].resetTime,
                       remaining |-> 0]]
     ELSE LET count == st[key].count + 1
          IN [store  |-> MapSet(st, key, [count |-> count,
                                          resetTime |-> st[key].resetTime]),
              result |-> [allowed |-> TRUE, resetTime |-> st[key].resetTime]]

\* checkRateLimit that stores count 0 for the request that opens a window
\* (line 54)
checkRateLimit_fromZero(st, key, t) ==
  LET windowEnd == t + RATE_LIMIT_WINDOW
  IN IF key \notin DOMAIN st \/ t > st[key].resetTime
     THEN [store  |-> MapSet(st, key, [count |-> 0, resetTime |-> windowEnd]),
           result |-> [allowed |-> TRUE, resetTime |-> windowEnd,
                       remaining |-> RATE_LIMIT - 1]]
     ELSE IF st[key].count >= RATE_LIMIT
     THEN [store  |-> st,
           result |-> [allowed |-> FALSE, resetTime |-> st[key].resetTime,
                       remaining |-> 0]]
     ELSE LET count == st[key].count + 1
          IN [store  |-> MapSet(st, key, [count |-> count,
                                          resetTime |-> st[key].resetTime]),
              result |-> [allowed |-> TRUE, resetTime |-> st[key].resetTime,
                          remaining |-> RATE_LIMIT - count]]

\* checkRateLimit whose denial returns windowEnd as resetTime (line 60)
checkRateLimit_deniedWindowEnd(st, key, t) ==
  LET windowEnd == t + RATE_LIMIT_WINDOW
  IN IF key \notin DOMAIN st \/ t > st[key].resetTime
     THEN [store  |-> MapSet(st, key, [count |-> 1, resetTime |-> windowEnd]),
           result |-> [allowed |-> TRUE, resetTime |-> windowEnd,
                       remaining |-> RATE_LIMIT - 1]]
     ELSE IF st[key].count >= RATE_LIMIT
     THEN [store  |-> st,
           result |-> [allowed |-> FALSE, resetTime |-> windowEnd,
                       remaining |-> 0]]
     ELSE LET count == st[key].count + 1
          IN [store  |-> MapSet(st, key, [count |-> count,
                                          resetTime |-> st[key].resetTime]),
              result |-> [allowed |-> TRUE, resetTime |-> st[key].resetTime,
                          remaining |-> RATE_LIMIT - count]]

\* checkRateLimit(key) run on map st at Date.now() = t:
\* the map it leaves and the decision it returns
checkRateLimit(st, key, t) ==
  LET windowEnd == t + RATE_LIMIT_WINDOW
  IN IF key \notin DOMAIN st \/ t > st[key].resetTime
     THEN [store  |-> MapSet(st, key, [count |-> 1, resetTime |-> windowEnd]),
           result |-> [allowed |-> TRUE, resetTime |-> windowEnd,
                       remaining |-> RATE_LIMIT - 1]]
     ELSE IF st[key].count >= RATE_LIMIT
     THEN [store  |-> st,
           result |-> [allowed |-> FALSE, resetTime |-> st[key].resetTime,
                       remaining |-> 0]]
     ELSE LET count == st[key].count + 1
          IN [store  |-> MapSet(st, key, [count |-> count,
                                          resetTime |-> st[key].resetTime]),
              result |-> [allowed |-> TRUE, resetTime |-> st[key].resetTime,
                          remaining |-> RATE_LIMIT - count]]

\* the callback with "now >= value.resetTime" as the test of line 15
sweep_ge(st, t) == MapDelete(st, {k \in DOMAIN st : t >= st[k].resetTime})

\* the callback that deletes the entries of the windows still open
sweep_inverted(st, t) == MapDelete(st, {k \in DOMAIN st : t < st[k].resetTime})

\* the setInterval callback run on map st at Date.now() = t
sweep(st, t) == MapDelete(st, {k \in DOMAIN st : t > st[k].resetTime})

\* Math.ceil(n / d) for an integer n and d > 0
CeilDiv(n, d) == -((-n) \div d)

(***************************************************************************)
(* Requests                                                                *)
(***************************************************************************)
NoHeaders == [cf |-> Absent, xff |-> Absent, realIp |-> Absent,
              clientIp |-> Absent]

\* header sets of the requests of two clients
RequestHeaders ==
  { [NoHeaders EXCEPT !.xff = Val(<<"1", ",", "2">>)],
    [NoHeaders EXCEPT !.cf = Val(<<"2">>), !.realIp = Val(<<"1">>)] }

\* header sets of the requests of one client, reached through two proxies
PostHeaders ==
  { [NoHeaders EXCEPT !.xff = Val(<<"1", ",", "2">>)],
    [NoHeaders EXCEPT !.cf = Val(<<"1">>), !.xff = Val(<<"2">>)] }

NoResult == [allowed |-> FALSE, resetTime |-> 0, remaining |-> 0]

NoResponse == [status |-> 0, limit |-> 0, remaining |-> 0, reset |-> 0,
               retryAfter |-> 0]

NoKey == [done |-> FALSE, key |-> <<>>]

IdleReq == [pc |-> "idle", result |-> NoResult, checks |-> 0,
            bodyRead |-> FALSE, genCalls |-> 0, response |-> NoResponse]

Min(a, b) == IF a < b THEN a ELSE b

(***************************************************************************)
(* History of the checks (not program state):                              *)
(* chk     the key and the decision of the most recent checkRateLimit call *)
(* win[k]  the window the checks of k are in: the time of its first check, *)
(*         the resetTime that check returned, the number of checks and of  *)
(*         allowed checks since (both saturating at RATE_LIMIT + 1)        *)
(* prev[k] the time of the first check of the window before it, kept when  *)
(*         that window ended with RATE_LIMIT allowed checks                *)
(* solo    for each key, the entry it has when only the checks of that key *)
(*         (and the sweeps) run                                            *)
(* noSweep the map as it is when the sweep never runs                      *)
(***************************************************************************)
WinOpens(w, key, t) == key \notin DOMAIN w \/ t > w[key].reset

WinAfter(w, key, t, result) ==
  LET one == IF result.allowed THEN 1 ELSE 0
  IN IF WinOpens(w, key, t)
     THEN MapSet(w, key, [open |-> t, reset |-> result.resetTime,
                          calls |-> 1, allowed |-> one])
     ELSE MapSet(w, key, [w[key] EXCEPT
                 !.calls = Min(@ + 1, RATE_LIMIT + 1),
                 !.allowed = Min(@ + one, RATE_LIMIT + 1)])

PrevAfter(p, w, key, t) ==
  IF key \in DOMAIN w /\ t > w[key].reset
  THEN IF w[key].allowed = RATE_LIMIT THEN MapSet(p, key, w[key].open)
       ELSE MapDelete(p, {key})
  ELSE p

\* the map of the world in which only the checks of key run
SoloOf(s, key) == [x \in DOMAIN s \cap {key} |-> s[x]]

SoloAfter(s, key, t) ==
  LET after == checkRateLimit(SoloOf(s, key), key, t).store
  IN [x \in (DOMAIN s \ {key}) \cup (DOMAIN after \cap {key}) |->
        IF x = key THEN after[x] ELSE s[x]]

(***************************************************************************)
(* Values of the page and of the parsed texts.  A value that can be null   *)
(* or undefined is Null or Some(v).                                        *)
(***************************************************************************)
Null == <<>>

Some(v) == <<v>>

\* a value as JSON.parse returns it: t is "array" (items are the ids of the
\* analyses in it), "null", "object", "number" or "string"
JsArray(items) == [t |-> "array", items |-> items]

JsOther(t) == [t |-> t, items |-> <<>>]

\* the useState initial values of Page (lines 81-92)
InitialUi ==
  [projectName |-> <<>>, projectDescription |-> <<>>, scores |-> Null,
   isLoading |-> FALSE, error |-> Null, isFormTouched |-> FALSE,
   savedAnalyses |-> JsArray(<<>>), rateLimitInfo |-> Null,
   retryCountdown |-> Null]

\* no handleSubmit call is in progress; cleared records that handleClear ran
\* while the call was awaiting its response
NoCall ==
  [pc |-> "idle", outcome |-> "none", retryAfter |-> Null, cleared |-> FALSE]

\* the timeout that the countdown effect has armed (armed: the retryCountdown
\* its callback has captured) and the retryCountdown of the effect's last run
NoTimer == [armed |-> Null, seen |-> Null]

\* the localStorage item of STORAGE_KEY: not set ("unset": getItem returns
\* null), the empty string ("empty"), a text that JSON.parse rejects
\* ("garbage") or the JSON text of value ("json")
Item(kind, value) == [kind |-> kind, value |-> value]

NoItem == Item("unset", JsOther("null"))

PageIdle ==
  /\ ui = InitialUi
  /\ storage = NoItem
  /\ call = NoCall
  /\ timer = NoTimer
  /\ saved = 0

TextIdle ==
  /\ modelText = Absent
  /\ outScore = Null
  /\ outList = Null

(***************************************************************************)
(* Initial state: the module was loaded at time 0 (empty map, timer armed) *)
(* and no request has arrived until one window before the first sweep      *)
(***************************************************************************)
LimiterInit ==
  /\ now = SWEEP_INTERVAL - RATE_LIMIT_WINDOW
  /\ ticks = 0
  /\ sweepAt = SWEEP_INTERVAL
  /\ store = EmptyMap
  /\ req = IdleReq
  /\ others = 0
  /\ chk = [key |-> <<>>, result |-> NoResult]
  /\ win = EmptyMap
  /\ prev = EmptyMap
  /\ solo = EmptyMap
  /\ noSweep = EmptyMap

Init ==
  /\ LimiterInit
  /\ inHeaders = NoHeaders
  /\ outKey = NoKey
  /\ PageIdle
  /\ TextIdle

(***************************************************************************)
(* POST, up to its first await: getRateLimitKey, checkRateLimit and, when  *)
(* the check denies, the 429 response (lines 93-117).  d is the time that  *)
(* passes between the Date.now() of checkRateLimit and that of line 100.   *)
(***************************************************************************)
\* the 429 response with Math.floor in place of Math.ceil (line 99)
Response429_floor(rateLimitResult, t) ==
  LET retryAfter == (rateLimitResult.resetTime - t) \div 1000
  IN [status |-> 429, limit |-> RATE_LIMIT, remaining |-> 0,
      reset |-> rateLimitResult.resetTime, retryAfter |-> retryAfter]

Response429(rateLimitResult, t) ==
  LET retryAfter == CeilDiv(rateLimitResult.resetTime - t, 1000)
  IN [status |-> 429, limit |-> RATE_LIMIT, remaining |-> 0,
      reset |-> rateLimitResult.resetTime, retryAfter |-> retryAfter]

\* the part of the prefix that every request runs on the shared map
Limit(headers, d) ==
  LET rateLimitKey    == getRateLimitKey(headers)
      res             == checkRateLimit(store, rateLimitKey, now)
      rateLimitResult == res.result
  IN /\ store' = res.store
     /\ chk' = [key |-> rateLimitKey, result |-> rateLimitResult]
     /\ win' = WinAfter(win, rateLimitKey, now, rateLimitResult)
     /\ prev' = PrevAfter(prev, win, rateLimitKey, now)
     /\ solo' = SoloAfter(solo, rateLimitKey, now)
     /\ noSweep' = checkRateLimit(noSweep, rateLimitKey, now).store
     /\ IF rateLimitResult.allowed
        THEN d = 0 /\ UNCHANGED <<now, ticks>>
        ELSE /\ d = 0 \/ ticks < MaxTicks
             /\ now' = now + d
             /\ ticks' = IF d = 0 THEN ticks ELSE ticks + 1
     /\ UNCHANGED <<sweepAt, keyVars, pageVars, textVars>>

\* POST without the return of line 102: a denied request goes on
PostCheck_noGate(headers, d) ==
  /\ req.pc = "idle"
  /\ Limit(headers, d)
  /\ req' = [pc |-> "body", result |-> chk'.result, checks |-> 1,
             bodyRead |-> FALSE, genCalls |-> 0, response |-> NoResponse]
  /\ UNCHANGED others

\* the request that is followed
PostCheck(headers, d) ==
  /\ req.pc = "idle"
  /\ Limit(headers, d)
  /\ req' = IF chk'.result.allowed
            THEN [pc |-> "body", result |-> chk'.result, checks |-> 1,
                  bodyRead |-> FALSE, genCalls |-> 0, response |-> NoResponse]
            ELSE [pc |-> "done", result |-> chk'.result, checks |-> 1,
                  bodyRead |-> FALSE, genCalls |-> 0,
                  response |-> Response429(chk'.result, now')]
  /\ UNCHANGED others

\* another request: allowed, it is suspended at await request.json()
OtherPost(headers, d) ==
  /\ others < MaxInFlight
  /\ Limit(headers, d)
  /\ others' = IF chk'.result.allowed THEN others + 1 ELSE others
  /\ UNCHANGED req

\* another request returns its 200 or 500 response
OtherReturn ==
  /\ others > 0
  /\ others' = others - 1
  /\ UNCHANGED <<now, ticks, sweepAt, store, req, chk, win, prev, solo,
                 noSweep, keyVars, pageVars, textVars>>

\* the catch block reading the decision of the latest check of the process
\* instead of the request's own rateLimitResult
Response500_latest(r) ==
  [r EXCEPT !.pc = "done",
            !.response = [status |-> 500, limit |-> RATE_LIMIT,
                          remaining |-> chk.result.remaining,
                          reset |-> chk.result.resetTime, retryAfter |-> 0]]

\* the catch block (lines 279-292)
Response500(r) ==
  [r EXCEPT !.pc = "done",
            !.response = [status |-> 500, limit |-> RATE_LIMIT,
                          remaining |-> r.result.remaining,
                          reset |-> r.result.resetTime, retryAfter |-> 0]]

\* lines 262-278
Response200(r) ==
  [r EXCEPT !.pc = "done",
            !.response = [status |-> 200, limit |-> RATE_LIMIT,
                          remaining |-> r.result.remaining,
                          reset |-> r.result.resetTime, retryAfter |-> 0]]

\* await request.json() settles (line 121); on success the six score
\* generations are started (lines 125-157)
PostBody(ok) ==
  /\ req.pc = "body"
  /\ req' = IF ok THEN [req EXCEPT !.pc = "scores", !.bodyRead = TRUE,
                                   !.genCalls = @ + 6]
            ELSE Response500(req)
  /\ UNCHANGED <<now, ticks, sweepAt, store, others, chk, win, prev, solo,
                 noSweep, keyVars, pageVars, textVars>>

\* the six score generations settle; on success the three feedback
\* generations are started (lines 159-216)
PostScores(ok) ==
  /\ req.pc = "scores"
  /\ req' = IF ok THEN [req EXCEPT !.pc = "feedback", !.genCalls = @ + 3]
            ELSE Response500(req)
  /\ UNCHANGED <<now, ticks, sweepAt, store, others, chk, win, prev, solo,
                 noSweep, keyVars, pageVars, textVars>>

\* the three feedback generations settle; on success the overall feedback
\* generation is started (lines 218-233)
PostFeedback(ok) ==
  /\ req.pc = "feedback"
  /\ req' = IF ok THEN [req EXCEPT !.pc = "overall", !.genCalls = @ + 1]
            ELSE Response500(req)
  /\ UNCHANGED <<now, ticks, sweepAt, store, others, chk, win, prev, solo,
                 noSweep, keyVars, pageVars, textVars>>

\* the overall feedback generation settles; on success the 200 response is
\* built (lines 235-278)
PostOverall(ok) ==
  /\ req.pc = "overall"
  /\ req' = IF ok THEN Response200(req) ELSE Response500(req)
  /\ UNCHANGED <<now, ticks, sweepAt, store, others, chk, win, prev, solo,
                 noSweep, keyVars, pageVars, textVars>>

\* the response has been sent; the next request is followed
PostReturn ==
  /\ req.pc = "done"
  /\ req' = IdleReq
  /\ UNCHANGED <<now, ticks, sweepAt, store, others, chk, win, prev, solo,
                 noSweep, keyVars, pageVars, textVars>>

(***************************************************************************)
(* The setInterval callback (lines 12-19): runs no earlier than 60000 ms   *)
(* after the previous run                                                  *)
(***************************************************************************)
Sweep ==
  /\ now >= sweepAt
  /\ store' = sweep(store, now)
  /\ solo' = sweep(solo, now)
  /\ sweepAt' = now + SWEEP_INTERVAL
  /\ UNCHANGED <<now, ticks, req, others, chk, win, prev, noSweep, keyVars,
                 pageVars, textVars>>

\* time passes
Tick(d) ==
  /\ ticks < MaxTicks
  /\ now' = now + d
  /\ ticks' = ticks + 1
  /\ UNCHANGED <<sweepAt, store, req, others, chk, win, prev, solo, noSweep,
                 keyVars, pageVars, textVars>>

(***************************************************************************)
(* Spec: the limiter under the requests of two clients                     *)
(***************************************************************************)
Next ==
  \/ \E headers \in RequestHeaders, d \in SyncDelays : OtherPost(headers, d)
  \/ OtherReturn
  \/ Sweep
  \/ \E d \in Deltas : Tick(d)

Spec == Init /\ [][Next]_vars

(***************************************************************************)
(* SpecPost: one request followed through POST among the other requests of *)
(* the same client                                                         *)
(***************************************************************************)
NextPost ==
  \/ \E headers \in PostHeaders, d \in SyncDelays : PostCheck(headers, d)
  \/ \E ok \in BOOLEAN : PostBody(ok)
  \/ \E ok \in BOOLEAN : PostScores(ok)
  \/ \E ok \in BOOLEAN : PostFeedback(ok)
  \/ \E ok \in BOOLEAN : PostOverall(ok)
  \/ PostReturn
  \/ \E headers \in PostHeaders, d \in SyncDelays : OtherPost(headers, d)
  \/ OtherReturn
  \/ Sweep
  \/ \E d \in Deltas : Tick(d)

SpecPost == Init /\ [][NextPost]_vars

(***************************************************************************)
(* Properties of the limiter                                               *)
(***************************************************************************)
\* a step in which a request, followed or not, runs checkRateLimit; chk' is
\* then the key and the decision of that call, made on store at time now
IsCheck ==
  \E headers \in RequestHeaders \cup PostHeaders :
    /\ getRateLimitKey(headers) = chk'.key
    /\ now' - now \in SyncDelays
    /\ Limit(headers, now' - now)

Fresh(key) == key \notin DOMAIN store \/ now > store[key].resetTime

\* C1: for every identity, from the check that opens a window to the first
\* check after that window's resetTime, at most RATE_LIMIT checks are
\* allowed, whatever the interleaving of requests, clients and sweeps.
C1_AtMostLimitPerWindow ==
  \A k \in DOMAIN win : win[k].allowed <= RATE_LIMIT

\* a window of one client is exhausted and a further check was made in it
\* while other requests are suspended and another client has an entry
C1_Witness ==
  \E k \in DOMAIN win :
    /\ win[k].allowed = RATE_LIMIT
    /\ win[k].calls > RATE_LIMIT
    /\ others > 0
    /\ DOMAIN store \ {k} # {}

\* C2: starting from no entry or an expired one, the n-th check of a window
\* (n <= RATE_LIMIT, each at a time not later than the resetTime the first
\* returned) is allowed with remaining = RATE_LIMIT - n and, after the first,
\* the resetTime the first returned.
C2_WindowOfLimitCalls ==
  [][IsCheck =>
       LET k == chk'.key
           n == IF WinOpens(win, k, now) THEN 1 ELSE win[k].calls + 1
       IN /\ Fresh(k) => WinOpens(win, k, now)
          /\ n <= RATE_LIMIT =>
               /\ chk'.result.allowed
               /\ chk'.result.remaining = RATE_LIMIT - n
               /\ n > 1 => chk'.result.resetTime = win[k].reset]_vars

\* the RATE_LIMIT-th check of a window has just been made
C2_Witness ==
  \E k \in DOMAIN win :
    /\ chk.key = k
    /\ win[k].calls = RATE_LIMIT
    /\ win[k].allowed = RATE_LIMIT
    /\ chk.result.allowed
    /\ chk.result.remaining = 0

\* C3: a check of a key whose entry has count = RATE_LIMIT, at a time not
\* later than its resetTime, returns allowed = FALSE, remaining = 0 and the
\* stored resetTime, and leaves the whole map unchanged.
C3_DeniedLeavesMap ==
  [][IsCheck =>
       LET k == chk'.key
       IN (k \in DOMAIN store /\ store[k].count = RATE_LIMIT
             /\ now <= store[k].resetTime)
          => /\ chk'.result = [allowed |-> FALSE, remaining |-> 0,
                               resetTime |-> store[k].resetTime]
             /\ store' = store]_vars

\* a check has been denied and its window is still open
C3_Witness ==
  /\ chk.key \in DOMAIN store
  /\ ~chk.result.allowed
  /\ store[chk.key].count = RATE_LIMIT
  /\ now <= store[chk.key].resetTime
  /\ win[chk.key].calls > RATE_LIMIT

\* C4: a check at a time strictly later than the stored resetTime returns
\* allowed = TRUE, remaining = RATE_LIMIT - 1, resetTime = now +
\* RATE_LIMIT_WINDOW and replaces the entry by {count: 1, resetTime: now +
\* RATE_LIMIT_WINDOW}, whatever the count of the entry was.
C4_ExpiredWindowResets ==
  [][IsCheck =>
       LET k == chk'.key
       IN (k \in DOMAIN store /\ now > store[k].resetTime)
          => /\ chk'.result = [allowed |-> TRUE,
                               remaining |-> RATE_LIMIT - 1,
                               resetTime |-> now + RATE_LIMIT_WINDOW]
             /\ k \in DOMAIN store'
             /\ store'[k] = [count |-> 1,
                             resetTime |-> now + RATE_LIMIT_WINDOW]]_vars

\* the window before the current one was exhausted, and the check that
\* opened the current one is the latest check
C4_Witness ==
  \E k \in DOMAIN prev :
    /\ chk.key = k
    /\ win[k].calls = 1
    /\ win[k].open = now
    /\ chk.result.remaining = RATE_LIMIT - 1

\* C5: a check of key A never creates, changes or removes the entry of
\* another key, and it returns what it returns when the checks of the other
\* keys never happen (solo).
C5_KeysIndependent ==
  [][IsCheck =>
       LET k == chk'.key
       IN /\ DOMAIN store' \ {k} = DOMAIN store \ {k}
          /\ \A b \in DOMAIN store \ {k} : store'[b] = store[b]
          /\ chk'.result = checkRateLimit(SoloOf(solo, k), k, now).result]_vars

\* a check is denied to one client while the other has used part of its
\* own window
C5_Witness ==
  /\ ~chk.result.allowed
  /\ \E b \in DOMAIN store \ {chk.key} :
       /\ store[b].count > 1
       /\ store[b].count < RATE_LIMIT
       /\ store[b].resetTime >= now

\* C6 (as amended): an identity can have RATE_LIMIT checks allowed in one
\* window and RATE_LIMIT more in the next, and the window of the second
\* RATE_LIMIT then opens at least RATE_LIMIT_WINDOW + 1 ms after the first
\* allowed check of the first: the 2 x RATE_LIMIT timestamps never lie in an
\* interval shorter than RATE_LIMIT_WINDOW + 1 ms.
BurstDone(k) ==
  k \in DOMAIN prev /\ k \in DOMAIN win /\ win[k].allowed = RATE_LIMIT

C6_BurstSpan ==
  \A k \in DOMAIN win :
    BurstDone(k) => win[k].open - prev[k] >= RATE_LIMIT_WINDOW + 1

\* 2 x RATE_LIMIT checks allowed, the second RATE_LIMIT of them all at the
\* time the second window opened, RATE_LIMIT_WINDOW + 1 ms after the first
C6_Witness ==
  \E k \in DOMAIN win :
    /\ BurstDone(k)
    /\ win[k].open = now
    /\ now - prev[k] = RATE_LIMIT_WINDOW + 1

\* C6 as claimed: the 2 x RATE_LIMIT allowed checks of a boundary burst,
\* among them the first check of each of the two windows, all lie inside an
\* interval shorter than RATE_LIMIT_WINDOW.
C6_BurstWithinWindow ==
  \A k \in DOMAIN win :
    BurstDone(k) => win[k].open - prev[k] < RATE_LIMIT_WINDOW

\* C7: POST resolves the key and calls checkRateLimit exactly once, before
\* the body is read and before any generation call; a denied request gets
\* 429 with X-RateLimit-Limit = RATE_LIMIT, X-RateLimit-Remaining = 0 and
\* X-RateLimit-Reset = the resetTime of the entry, and never reads the body
\* nor calls the generation service.
C7_CheckedOnceBeforeWork ==
  [][/\ req'.pc # "idle" => req'.checks = 1
     /\ (req'.bodyRead \/ req'.genCalls > 0) =>
          req'.checks = 1 /\ req'.result.allowed
     /\ (req.checks = 0 /\ req'.checks = 1) =>
          /\ ~req'.bodyRead /\ req'.genCalls = 0
          /\ req'.result = chk'.result
     /\ (req'.checks = 1 /\ ~req'.result.allowed) =>
          /\ req'.pc = "done"
          /\ ~req'.bodyRead /\ req'.genCalls = 0
          /\ req'.response.status = 429
          /\ req'.response.limit = RATE_LIMIT
          /\ req'.response.remaining = 0
     /\ (req.checks = 0 /\ req'.checks = 1 /\ ~req'.result.allowed) =>
          /\ chk'.key \in DOMAIN store'
          /\ req'.response.reset = store'[chk'.key].resetTime]_vars

\* the followed request was denied while another one is suspended
C7_Witness ==
  /\ req.pc = "done"
  /\ req.response.status = 429
  /\ others > 0

\* C8: every check returns what it returns when the sweep never runs
\* (noSweep).
C8_SweepTransparent ==
  [][IsCheck =>
       chk'.result = checkRateLimit(noSweep, chk'.key, now).result]_vars

\* the time of the latest run of the sweep
SweptAt == sweepAt - SWEEP_INTERVAL

\* a sweep has removed the entry of an exhausted window and the latest check
\* is the next check of that key
C8_Witness ==
  \E k \in DOMAIN prev :
    /\ SweptAt > 0
    /\ prev[k] + RATE_LIMIT_WINDOW < SweptAt
    /\ win[k].open >= SweptAt
    /\ chk.key = k

\* C9: a sweep at time now removes the entries with resetTime < now and
\* leaves every other entry as it is; the next check of a key that is not in
\* the map returns what a first check returns.
C9_SweepRemovesExpiredOnly ==
  [][/\ sweepAt' # sweepAt =>
          /\ DOMAIN store' = {k \in DOMAIN store : ~(store[k].resetTime < now)}
          /\ \A k \in DOMAIN store' : store'[k] = store[k]
     /\ (IsCheck /\ chk'.key \notin DOMAIN store) =>
          /\ chk'.result = [allowed |-> TRUE, remaining |-> RATE_LIMIT - 1,
                            resetTime |-> now + RATE_LIMIT_WINDOW]
          /\ store'[chk'.key] = [count |-> 1,
                                 resetTime |-> now + RATE_LIMIT_WINDOW]]_vars

\* a sweep has removed the entry of one key and kept the entry of another,
\* whose window opened before the sweep, and the removed key was checked
\* again
C9_Witness ==
  \E a \in DOMAIN prev, b \in DOMAIN store :
    /\ a # b
    /\ SweptAt > 0
    /\ prev[a] + RATE_LIMIT_WINDOW < SweptAt
    /\ win[a].open >= SweptAt
    /\ chk.key = a
    /\ win[b].open < SweptAt
    /\ store[b].resetTime >= SweptAt

\* C12: on every 429 response retryAfter (body and Retry-After header) is
\* ceil((resetTime - now) / 1000) with now read when the response is built,
\* i.e. the least integer number of seconds not before the reset, and it is
\* an integer from 0 to ceil(RATE_LIMIT_WINDOW / 1000) = 1.
C12_RetryAfterSeconds ==
  [][(req.checks = 0 /\ req'.checks = 1 /\ req'.response.status = 429) =>
       LET retryAfter == req'.response.retryAfter
           left       == req'.response.reset - now'
       IN /\ req'.response.reset = chk'.result.resetTime
          /\ retryAfter * 1000 >= left
          /\ (retryAfter - 1) * 1000 < left
          /\ retryAfter \in 0..CeilDiv(RATE_LIMIT_WINDOW, 1000)]_vars

\* a request was denied at the last millisecond of its window and its 429
\* response was built one millisecond later, after the reset
C12_Witness ==
  /\ req.pc = "done"
  /\ req.response.status = 429
  /\ now = req.response.reset + 1
  /\ req.response.retryAfter = 0

\* C14: every call of checkRateLimit returns a decision that has the three
\* properties allowed (a boolean), resetTime and remaining (numbers), so the
\* resetTime and remaining that POST puts in the headers of its 429, 200 and
\* 500 responses are numbers, those of the decision.
C14_DecisionDefined ==
  [][/\ IsCheck =>
          /\ DOMAIN chk'.result = {"allowed", "resetTime", "remaining"}
          /\ chk'.result.allowed \in BOOLEAN
          /\ chk'.result.resetTime \in Nat
          /\ chk'.result.remaining \in 0..(RATE_LIMIT - 1)
     /\ (req.pc # "done" /\ req'.pc = "done") =>
          /\ req'.response.status \in {429, 200, 500}
          /\ req'.response.reset \in Nat
          /\ req'.response.reset = req'.result.resetTime
          /\ req'.response.remaining \in 0..(RATE_LIMIT - 1)
          /\ req'.response.remaining = req'.result.remaining]_vars

\* the followed request, the last one allowed in its window, has its 500
\* response, and the latest check, of another request, was denied
C14_Witness ==
  /\ req.pc = "done"
  /\ req.response.status = 500
  /\ req.result.remaining = 0
  /\ ~chk.result.allowed

\* what a step does to the counts of the map
CountStep ==
  /\ \A k \in DOMAIN store' :
       /\ store'[k].count >= 1
       /\ store'[k].count <= RATE_LIMIT
  /\ \A k \in DOMAIN store \cap DOMAIN store' :
       store'[k].resetTime = store[k].resetTime =>
         /\ store'[k].count >= store[k].count
         /\ store'[k].count - store[k].count =
              (IF IsCheck /\ chk'.key = k /\ chk'.result.allowed THEN 1 ELSE 0)
  /\ (IsCheck /\ chk'.result.allowed) =>
       /\ chk'.key \in DOMAIN store'
       /\ chk'.result.remaining = RATE_LIMIT - store'[chk'.key].count
       /\ chk'.result.remaining >= 0
       /\ chk'.result.remaining <= RATE_LIMIT - 1

\* C22: every entry of the map has 1 <= count <= RATE_LIMIT; while the
\* resetTime of an entry is unchanged its count never decreases and grows
\* by exactly 1 per allowed check; an allowed result has remaining =
\* RATE_LIMIT - the count of the entry right after the call, from 0 to
\* RATE_LIMIT - 1.
C22_CountWithinLimit ==
  [][CountStep]_vars

\* the latest check was allowed with remaining strictly between 0 and
\* RATE_LIMIT - 1 while the entry of the other client is full
C22_Witness ==
  /\ chk.result.allowed
  /\ chk.result.remaining > 0
  /\ chk.result.remaining < RATE_LIMIT - 1
  /\ chk.key \in DOMAIN store
  /\ store[chk.key].count = RATE_LIMIT - chk.result.remaining
  /\ \E b \in DOMAIN store \ {chk.key} : store[b].count = RATE_LIMIT

\* what a check returns as resetTime, against the window its identity had
\* before the call
ResetTimeStep ==
  (IsCheck /\ chk'.key \in DOMAIN win) =>
    LET k == chk'.key
    IN IF now > win[k].reset
       THEN chk'.result.resetTime > win[k].reset
       ELSE /\ chk'.result.resetTime = win[k].reset
            /\ k \in DOMAIN store'
            /\ store'[k].resetTime = win[k].reset

\* C23: for each identity the resetTime values returned by successive
\* checks never decrease: a check inside a window, allowed or denied,
\* returns the resetTime of that window and leaves it in the map, and a
\* check that opens a new window returns a strictly greater resetTime.
C23_ResetTimeMonotonic ==
  [][ResetTimeStep]_vars

\* the latest check was denied in a window that followed a full window of
\* the same identity, and returned that window's resetTime
C23_Witness ==
  /\ ~chk.result.allowed
  /\ chk.key \in DOMAIN prev
  /\ chk.key \in DOMAIN win
  /\ win[chk.key].open > prev[chk.key]
  /\ chk.result.resetTime = win[chk.key].reset

\* the followed request from its check to its 500 response
FailureStep ==
  /\ (req.pc = "idle" /\ req'.pc = "body") =>
       /\ IsCheck
       /\ req'.result = chk'.result
       /\ req'.result.allowed
  /\ (req.pc \notin {"idle", "done"}) =>
       /\ req'.result = req.result
       /\ \A k \in DOMAIN store \cap DOMAIN store' :
            store'[k].resetTime = store[k].resetTime =>
              store'[k].count >= store[k].count
  /\ (req.pc # "done" /\ req'.pc = "done" /\ req'.response.status = 500) =>
       /\ store' = store
       /\ req'.response.remaining = req.result.remaining
       /\ req'.response.reset = req.result.resetTime

\* C24: an allowed request keeps its unit of quota when its processing
\* fails: from its check to its 500 response no count is decremented, the
\* failing step leaves the map unchanged, and the 500 response carries the
\* remaining and resetTime returned by the request's own check, whatever
\* other requests did to the entry while it was suspended.
C24_FailureKeepsQuota ==
  [][FailureStep]_vars

\* a 500 response whose remaining is no longer what the entry of its
\* identity holds: another request was counted while this one was suspended
C24_Witness ==
  /\ req.pc = "done"
  /\ req.response.status = 500
  /\ <<"1">> \in DOMAIN store
  /\ store[<<"1">>].resetTime = req.response.reset
  /\ store[<<"1">>].count > RATE_LIMIT - req.response.remaining

(***************************************************************************)
(* SpecAnon: the limiter under requests that carry no identity             *)
(***************************************************************************)
\* header sets in which each of the four headers is absent or empty; the
\* sixteen of them stand for as many clients
AnonHeaders ==
  [cf : {Absent, Val(<<>>)}, xff : {Absent, Val(<<>>)},
   realIp : {Absent, Val(<<>>)}, clientIp : {Absent, Val(<<>>)}]

NextAnon ==
  \/ \E headers \in AnonHeaders, d \in SyncDelays : OtherPost(headers, d)
  \/ OtherReturn
  \/ Sweep
  \/ \E d \in Deltas : Tick(d)

SpecAnon == Init /\ [][NextAnon]_vars

\* a step in which a request without identity runs checkRateLimit
IsAnonCheck ==
  \E headers \in AnonHeaders :
    /\ now' - now \in SyncDelays
    /\ Limit(headers, now' - now)

\* the sentinel's window has its RATE_LIMIT accepted requests and is open
SentinelFull ==
  /\ UNKNOWN_CLIENT \in DOMAIN win
  /\ win[UNKNOWN_CLIENT].allowed = RATE_LIMIT
  /\ now <= win[UNKNOWN_CLIENT].reset

AnonStep ==
  /\ \A headers \in AnonHeaders : getRateLimitKey(headers) = UNKNOWN_CLIENT
  /\ IsAnonCheck =>
       /\ chk'.key = UNKNOWN_CLIENT
       /\ DOMAIN store' = {UNKNOWN_CLIENT}
       /\ SentinelFull => (~chk'.result.allowed /\ store' = store)

\* C25: every request whose four identity headers are absent or empty gets
\* the key "unknown-client"; all of them count in the one entry of that
\* key, and once RATE_LIMIT of them were accepted in a window the next one
\* is denied, whichever client sent it.
C25_AnonymousShareCounter ==
  [][AnonStep]_vars

\* a request without identity was denied in the window in which RATE_LIMIT
\* requests without identity had been accepted
C25_Witness ==
  /\ chk.key = UNKNOWN_CLIENT
  /\ ~chk.result.allowed
  /\ SentinelFull
  /\ win[UNKNOWN_CLIENT].calls > RATE_LIMIT
  /\ DOMAIN store = {UNKNOWN_CLIENT}

(***************************************************************************)
(* SpecKey: getRateLimitKey on every combination of header values          *)
(***************************************************************************)
RECURSIVE StringsUpTo(_)
StringsUpTo(n) ==
  IF n = 0 THEN {<<>>}
  ELSE LET shorter == StringsUpTo(n - 1)
       IN shorter \cup {Append(s, c) : s \in shorter, c \in Chars}

\* Headers.get returns a value without leading or trailing whitespace
Normalized(s) == s = <<>> \/ (Head(s) # " " /\ s[Len(s)] # " ")

ForwardedValues ==
  {Absent} \cup {Val(s) : s \in {x \in StringsUpTo(MaxLen) : Normalized(x)}}

CfValues == {Absent, Val(<<>>), Val(<<"9">>), Val(<<"9", ",", "8">>)}

RealIpValues == {Absent, Val(<<>>), Val(<<"7">>), Val(<<"7", " ", "6">>)}

ClientIpValues == {Absent, Val(<<>>), Val(<<"5">>)}

KeyInputs ==
  [cf : CfValues, xff : ForwardedValues, realIp : RealIpValues,
   clientIp : ClientIpValues]

KeyInit ==
  /\ LimiterInit
  /\ inHeaders \in KeyInputs
  /\ outKey = NoKey
  /\ PageIdle
  /\ TextIdle

Resolve ==
  /\ ~outKey.done
  /\ outKey' = [done |-> TRUE, key |-> getRateLimitKey(inHeaders)]
  /\ UNCHANGED <<inHeaders, limiterVars, pageVars, textVars>>

NextKey == Resolve

SpecKey == KeyInit /\ [][NextKey]_vars

\* the first comma-separated entry of s
FirstEntryLen(s) ==
  CHOOSE n \in 0..Len(s) :
    /\ n = Len(s) \/ s[n + 1] = ","
    /\ \A i \in 1..n : s[i] # ","

\* key is what is left of the first entry of s without the blanks around it
IsTrimmedFirstEntry(key, s) ==
  LET n == FirstEntryLen(s)
  IN /\ key = <<>> \/ (key[1] # " " /\ key[Len(key)] # " ")
     /\ \E i \in 0..n :
          /\ i + Len(key) <= n
          /\ \A p \in 1..i : s[p] = " "
          /\ \A p \in 1..Len(key) : s[i + p] = key[p]
          /\ \A p \in (i + Len(key) + 1)..n : s[p] = " "

\* C10: the key is the cf-connecting-ip value if present and non-empty;
\* otherwise the trimmed first comma-separated entry of x-forwarded-for;
\* otherwise x-real-ip; otherwise x-client-ip; otherwise "unknown-client".
C10_PriorityOrder ==
  outKey.done =>
    LET h == inHeaders
    IN IF Truthy(h.cf) THEN outKey.key = h.cf.val
       ELSE IF Truthy(h.xff) THEN IsTrimmedFirstEntry(outKey.key, h.xff.val)
       ELSE IF Truthy(h.realIp) THEN outKey.key = h.realIp.val
       ELSE IF Truthy(h.clientIp) THEN outKey.key = h.clientIp.val
       ELSE outKey.key = UNKNOWN_CLIENT

\* an empty cf-connecting-ip, an x-forwarded-for list whose first entry needs
\* trimming, and both lower-priority headers set
C10_Witness ==
  /\ outKey.done
  /\ inHeaders.cf = Val(<<>>)
  /\ inHeaders.xff = Val(<<"1", " ", ",">>)
  /\ Truthy(inHeaders.realIp)
  /\ Truthy(inHeaders.clientIp)
  /\ outKey.key = <<"1">>

\* C11: for every combination of the four headers, among them an
\* x-forwarded-for list whose first entry is empty or blank, the key that
\* getRateLimitKey returns is a non-empty string.
C11_KeyNonEmpty ==
  outKey.done => outKey.key # <<>>

(***************************************************************************)
(* The history in localStorage (page.tsx lines 48-78).  An analysis is     *)
(* identified by its id, the time at which it was made.                    *)
(***************************************************************************)
\* JSON.parse(localStorage.getItem(STORAGE_KEY) || "[]")
ParseItem(item) ==
  IF item.kind \in {"unset", "empty"}
  THEN [throws |-> FALSE, value |-> JsArray(<<>>)]
  ELSE IF item.kind = "garbage"
  THEN [throws |-> TRUE, value |-> JsOther("null")]
  ELSE [throws |-> FALSE, value |-> item.value]

\* the entries of the history that a save keeps (line 54)
HISTORY_KEPT == 9

\* items.slice(0, n)
Slice(items, n) == SubSeq(items, 1, Min(n, Len(items)))

\* items.filter((item) => item.id !== id)
RECURSIVE FilterOut(_, _)
FilterOut(items, id) ==
  IF items = <<>> THEN <<>>
  ELSE IF Head(items) = id THEN FilterOut(Tail(items), id)
  ELSE <<Head(items)>> \o FilterOut(Tail(items), id)

\* saveToLocalStorage with existing.slice(0, 10) at line 54
saveToLocalStorage_keepTen(item, analysis) ==
  LET existing == ParseItem(item)
  IN IF existing.throws \/ existing.value.t # "array" THEN item
     ELSE Item("json", JsArray(<<analysis>> \o
                               Slice(existing.value.items, HISTORY_KEPT + 1)))

\* the item that saveToLocalStorage(analysis) leaves: a value without a
\* slice method (null, an object, a number) makes line 54 throw, and the
\* catch block writes nothing
saveToLocalStorage(item, analysis) ==
  LET existing == ParseItem(item)
  IN IF existing.throws \/ existing.value.t # "array" THEN item
     ELSE Item("json", JsArray(<<analysis>> \o
                               Slice(existing.value.items, HISTORY_KEPT)))

\* the value that getFromLocalStorage() returns
getFromLocalStorage(item) ==
  LET parsed == ParseItem(item)
  IN IF parsed.throws THEN JsArray(<<>>) ELSE parsed.value

\* the item that deleteFromLocalStorage(id) leaves: a value without a
\* filter method makes line 73 throw
deleteFromLocalStorage(item, id) ==
  LET existing == getFromLocalStorage(item)
  IN IF existing.t # "array" THEN item
     ELSE Item("json", JsArray(FilterOut(existing.items, id)))

(***************************************************************************)
(* The Page component (page.tsx lines 80-230).  The setState calls that a  *)
(* handler makes between two awaits are applied together.  A response is   *)
(* [status, remaining, body]; the X-RateLimit-Reset time, which the page   *)
(* only stores, is left out of rateLimitInfo.                              *)
(***************************************************************************)
\* most analyses made in one behaviour
MaxSaved == 2

\* what the user types in a field
FormTexts == {<<" ">>, <<"a">>}

\* the retryAfter of the body of a 429 response of POST (C12), or a body
\* without one
RetryAfters == {Null} \cup {Some(n) : n \in 0..CeilDiv(RATE_LIMIT_WINDOW, 1000)}

\* the page before its mount effect has run
Unmounted ==
  [pc |-> "unmounted", outcome |-> "none", retryAfter |-> Null,
   cleared |-> FALSE]

\* a render reads savedAnalyses.length (line 414), which throws on null
Renders(u) == u.savedAnalyses.t # "null"

Rendered(c, u) == IF Renders(u) THEN c ELSE [c EXCEPT !.pc = "crashed"]

\* the page is mounted and the effects of its last render have run: React
\* runs the pending effects of a render before it handles the next event
\* that sets state
Mounted ==
  /\ call.pc \notin {"unmounted", "crashed"}
  /\ ui.retryCountdown = timer.seen

\* the disabled condition of the submit button (line 390)
Disabled == ui.isLoading \/ ui.retryCountdown # Null

\* the mount effect (lines 95-97)
Mount ==
  /\ call.pc = "unmounted"
  /\ ui' = [ui EXCEPT !.savedAnalyses = getFromLocalStorage(storage)]
  /\ call' = Rendered(NoCall, ui')
  /\ UNCHANGED <<storage, timer, saved, limiterVars, keyVars, textVars>>

handleInputChange(field, value) ==
  /\ Mounted
  /\ ui' = IF field = "name"
            THEN [ui EXCEPT !.isFormTouched = TRUE, !.projectName = value]
            ELSE [ui EXCEPT !.isFormTouched = TRUE,
                            !.projectDescription = value]
  /\ UNCHANGED <<storage, call, timer, saved, limiterVars, keyVars, textVars>>

\* handleSubmit without the return of line 116
handleSubmit_noReturn ==
  /\ Mounted
  /\ ~Disabled
  /\ ui' = [ui EXCEPT !.isLoading = TRUE, !.error = Null,
                       !.retryCountdown = Null]
  /\ call' = [pc |-> "post", outcome |-> "none", retryAfter |-> Null,
              cleared |-> FALSE]
  /\ UNCHANGED <<storage, timer, saved, limiterVars, keyVars, textVars>>

\* handleSubmit up to its first await (lines 112-129); the form is submitted
\* through its submit button, which is not disabled
handleSubmit ==
  /\ Mounted
  /\ ~Disabled
  /\ IF Trim(ui.projectName) = <<>> \/ Trim(ui.projectDescription) = <<>>
     THEN /\ ui' = [ui EXCEPT !.error = Some("validation")]
          /\ UNCHANGED call
     ELSE /\ ui' = [ui EXCEPT !.isLoading = TRUE, !.error = Null,
                              !.retryCountdown = Null]
          /\ call' = [pc |-> "post", outcome |-> "none", retryAfter |-> Null,
                      cleared |-> FALSE]
  /\ UNCHANGED <<storage, timer, saved, limiterVars, keyVars, textVars>>

\* the countdown that the page starts when a 429 response names none
\* (lines 164, 186)
DefaultRetry == 60

Finished(outcome, ra) ==
  [pc |-> "idle", outcome |-> outcome, retryAfter |-> ra, cleared |-> FALSE]

\* await ky.post settles (line 124): a 200 response (lines 132-141), or ky
\* throws an HTTPError with the response or another error (status 0); the
\* X-RateLimit-Remaining header of the response is remaining
PostSettles(status, remaining) ==
  /\ call.pc = "post"
  /\ Mounted
  /\ status = 200 => saved < MaxSaved
  /\ status # 200 => remaining = 0
  /\ IF status = 200
     THEN /\ ui' = [ui EXCEPT !.rateLimitInfo =
                       Some([limit |-> RATE_LIMIT, remaining |-> remaining,
                             retryAfter |-> Null])]
          /\ call' = [call EXCEPT !.pc = "json"]
     ELSE IF status = 429
     THEN /\ call' = [call EXCEPT !.pc = "json429"]
          /\ UNCHANGED ui
     ELSE IF status >= 500
     THEN /\ ui' = [ui EXCEPT !.error = Some("server"), !.isLoading = FALSE]
          /\ call' = Finished("server", Null)
     ELSE /\ ui' = [ui EXCEPT !.error = Some("network"), !.isLoading = FALSE]
          /\ call' = Finished("network", Null)
  /\ UNCHANGED <<storage, timer, saved, limiterVars, keyVars, textVars>>

\* what Date.now() can return at line 146, saved being the number of
\* analyses made so far and the latest reading that an id can hold: the
\* wall clock has moved on since then or, having millisecond resolution and
\* being shared with the other writers of the history, it has not
DateNow == {saved, saved + 1}

\* await response.json() settles (line 141); on success the analysis is
\* shown and saved (lines 142-153) with Date.now() = t as its id
JsonSettlesAt(ok, t) ==
  /\ call.pc = "json"
  /\ Mounted
  /\ IF ok
     THEN LET id == t
          IN /\ saved' = saved + 1
             /\ storage' = saveToLocalStorage(storage, id)
             /\ ui' = [ui EXCEPT !.scores = Some(id),
                                 !.savedAnalyses = getFromLocalStorage(storage'),
                                 !.isLoading = FALSE]
             /\ call' = Rendered(Finished("ok", Null), ui')
     ELSE /\ ui' = [ui EXCEPT !.error = Some("network"), !.isLoading = FALSE]
          /\ call' = Finished("network", Null)
          /\ UNCHANGED <<storage, saved>>
  /\ UNCHANGED <<timer, limiterVars, keyVars, textVars>>

\* the same under a clock that has moved on since the previous analysis
JsonSettles(ok) == JsonSettlesAt(ok, saved + 1)

\* await err.response.json() settles (line 160): the body is read, with
\* retryAfter ra (Null: the body has none), or reading it throws
\* (lines 161-187)
Json429Settles(readable, ra) ==
  /\ call.pc = "json429"
  /\ Mounted
  /\ ~readable => ra = Null
  /\ IF readable
     THEN LET retryAfter == IF ra = Null \/ ra = Some(0) THEN DefaultRetry
                            ELSE ra[1]
          IN ui' = [ui EXCEPT !.rateLimitInfo =
                        Some([limit |-> RATE_LIMIT, remaining |-> 0,
                              retryAfter |-> Some(retryAfter)]),
                      !.retryCountdown = Some(retryAfter),
                      !.error = Some("rate"),
                      !.isLoading = FALSE]
     ELSE ui' = [ui EXCEPT !.error = Some("rateShort"),
                           !.retryCountdown = Some(DefaultRetry),
                           !.isLoading = FALSE]
  /\ call' = Finished(IF readable THEN "rate" ELSE "rateShort", ra)
  /\ UNCHANGED <<storage, timer, saved, limiterVars, keyVars, textVars>>

\* the request that handleSubmit awaits
InFlight == call.pc \in {"post", "json", "json429"}

\* the Clear button is rendered while isFormTouched, loading or not
\* (lines 403-412); handleClear resets the form and leaves the pending
\* request alone (lines 200-208)
handleClear ==
  /\ Mounted
  /\ ui.isFormTouched
  /\ ui' = [ui EXCEPT !.projectName = <<>>, !.projectDescription = <<>>,
                       !.scores = Null, !.error = Null,
                       !.isFormTouched = FALSE,
                       !.rateLimitInfo = Null, !.retryCountdown = Null]
  /\ call' = IF InFlight THEN [call EXCEPT !.cleared = TRUE] ELSE call
  /\ UNCHANGED <<storage, timer, saved, limiterVars, keyVars, textVars>>

\* the saved analysis id is loaded in the form: its name and description
\* were non-empty after trimming
handleLoadSaved(id) ==
  /\ Mounted
  /\ ui.savedAnalyses.t = "array"
  /\ \E i \in 1..Len(ui.savedAnalyses.items) : ui.savedAnalyses.items[i] = id
  /\ ui' = [ui EXCEPT !.projectName = <<"a">>, !.projectDescription = <<"a">>,
                       !.scores = Some(id), !.isFormTouched = TRUE]
  /\ UNCHANGED <<storage, call, timer, saved, limiterVars, keyVars, textVars>>

handleDeleteSaved(id) ==
  /\ Mounted
  /\ ui.savedAnalyses.t = "array"
  /\ \E i \in 1..Len(ui.savedAnalyses.items) : ui.savedAnalyses.items[i] = id
  /\ storage' = deleteFromLocalStorage(storage, id)
  /\ ui' = [ui EXCEPT !.savedAnalyses = getFromLocalStorage(storage')]
  /\ call' = Rendered(call, ui')
  /\ UNCHANGED <<timer, saved, limiterVars, keyVars, textVars>>

\* the countdown effect without its else-if branch (lines 106-109)
CountdownEffect_noZero ==
  /\ call.pc \notin {"unmounted", "crashed"}
  /\ ui.retryCountdown # timer.seen
  /\ LET retryCountdown == ui.retryCountdown
     IN IF retryCountdown # Null /\ retryCountdown[1] > 0
        THEN timer' = [armed |-> retryCountdown, seen |-> retryCountdown]
        ELSE timer' = [armed |-> Null, seen |-> retryCountdown]
  /\ UNCHANGED <<ui, storage, call, saved, limiterVars, keyVars, textVars>>

\* the countdown effect (lines 100-110) runs after a render in which
\* retryCountdown has changed: the cleanup of its previous run clears the
\* timeout, then its body runs
CountdownEffect ==
  /\ call.pc \notin {"unmounted", "crashed"}
  /\ ui.retryCountdown # timer.seen
  /\ LET retryCountdown == ui.retryCountdown
     IN IF retryCountdown # Null /\ retryCountdown[1] > 0
        THEN /\ timer' = [armed |-> retryCountdown, seen |-> retryCountdown]
             /\ UNCHANGED ui
        ELSE IF retryCountdown = Some(0)
        THEN /\ timer' = [armed |-> Null, seen |-> retryCountdown]
             /\ ui' = [ui EXCEPT !.retryCountdown = Null, !.error = Null]
        ELSE /\ timer' = [armed |-> Null, seen |-> retryCountdown]
             /\ UNCHANGED ui
  /\ UNCHANGED <<storage, call, saved, limiterVars, keyVars, textVars>>

\* the timeout armed by the effect fires after 1000 ms (lines 102-104)
TimerFires ==
  /\ call.pc \notin {"unmounted", "crashed"}
  /\ timer.armed # Null
  /\ ui' = [ui EXCEPT !.retryCountdown = Some(timer.armed[1] - 1)]
  /\ timer' = [timer EXCEPT !.armed = Null]
  /\ UNCHANGED <<storage, call, saved, limiterVars, keyVars, textVars>>

(***************************************************************************)
(* SpecUi: the page from its mount, with an empty history, under every     *)
(* action of the user and every reply of the server.  SpecUiLive adds that *)
(* what is pending happens: the request and the reads of a body settle (ky *)
(* times out a request), effects run after a render, an armed timeout      *)
(* fires.  Nothing is assumed of the user.                                 *)
(***************************************************************************)
UiInit ==
  /\ LimiterInit
  /\ inHeaders = NoHeaders
  /\ outKey = NoKey
  /\ TextIdle
  /\ ui = InitialUi
  /\ storage = NoItem
  /\ call = Unmounted
  /\ timer = NoTimer
  /\ saved = 0

Settles ==
  \/ \E status \in {200, 429, 500, 0}, remaining \in {0, RATE_LIMIT - 1} :
       PostSettles(status, remaining)
  \/ \E ok \in BOOLEAN : JsonSettles(ok)
  \/ \E readable \in BOOLEAN, ra \in RetryAfters : Json429Settles(readable, ra)

NextUi ==
  \/ Mount
  \/ \E field \in {"name", "description"}, value \in FormTexts :
       handleInputChange(field, value)
  \/ handleSubmit
  \/ Settles
  \/ handleClear
  \/ \E id \in 1..MaxSaved : handleLoadSaved(id)
  \/ \E id \in 1..MaxSaved : handleDeleteSaved(id)
  \/ CountdownEffect
  \/ TimerFires

SpecUi == UiInit /\ [][NextUi]_vars

SpecUiLive ==
  /\ SpecUi
  /\ WF_vars(Mount)
  /\ WF_vars(Settles)
  /\ WF_vars(CountdownEffect)
  /\ WF_vars(TimerFires)

\* a step in which the timeout of the countdown fires
TimerStep ==
  timer.armed # Null /\ timer'.armed = Null /\ timer'.seen = timer.seen

\* what a step of the page does to isLoading and to the countdown
SubmitAndCountdownStep ==
  /\ (call.pc \in {"post", "json", "json429"} /\ call'.pc = "idle") =>
       ~ui'.isLoading
  /\ ui'.isLoading => call'.pc \in {"post", "json", "json429"}
  /\ ui'.retryCountdown # Null =>
       ui'.retryCountdown[1] \in 0..DefaultRetry
  /\ (TimerStep /\ ui.retryCountdown # Null) =>
       ui'.retryCountdown = Some(ui.retryCountdown[1] - 1)
  /\ (ui.retryCountdown = Some(0) /\ ui'.retryCountdown # Some(0)) =>
       ui'.retryCountdown = Null /\ ui'.error = Null

\* C13: after any failed submission the form becomes re-submittable without
\* Clear being pressed: isLoading is false when handleSubmit has finished,
\* a countdown is a number from 0 to 60 that a timer tick decreases by one,
\* at 0 it is set to null with the error cleared, and whenever the submit
\* button is disabled it is eventually enabled.
C13_FormResubmittable ==
  /\ [][SubmitAndCountdownStep]_vars
  /\ Disabled ~> ~Disabled

\* a 429 response whose body says retryAfter 0 has started a countdown of
\* 60, which has been counted down to its last second
C13_Witness ==
  /\ call.outcome = "rate"
  /\ call.retryAfter = Some(0)
  /\ ui.retryCountdown = Some(1)
  /\ ui.error = Some("rate")
  /\ ~ui.isLoading

(***************************************************************************)
(* SpecStore: the page opened on every kind of stored history; the user    *)
(* submits valid forms, which the server accepts, and deletes saved        *)
(* analyses.  The analyses stored before the page was opened have the ids  *)
(* 0, -1, -2, ... (the most recent first); those made since have the ids   *)
(* 1, 2, ...                                                               *)
(***************************************************************************)
\* the n most recent analyses made before the page was opened
Recent(n) == [i \in 1..n |-> 1 - i]

StoredItems ==
  {NoItem, Item("empty", JsOther("null")), Item("garbage", JsOther("null"))}
    \cup {Item("json", JsOther(t)) : t \in {"null", "object", "number"}}
    \cup {Item("json", JsArray(Recent(n))) :
            n \in {0, 1, HISTORY_KEPT, HISTORY_KEPT + 1}}

StoreInit ==
  /\ LimiterInit
  /\ inHeaders = NoHeaders
  /\ outKey = NoKey
  /\ TextIdle
  /\ ui = InitialUi
  /\ storage \in StoredItems
  /\ call = Unmounted
  /\ timer = NoTimer
  /\ saved = 0

NextStore ==
  \/ Mount
  \/ \E field \in {"name", "description"} : handleInputChange(field, <<"a">>)
  \/ handleSubmit
  \/ PostSettles(200, RATE_LIMIT - 1)
  \/ \E t \in DateNow : JsonSettlesAt(TRUE, t)
  \/ \E id \in (-HISTORY_KEPT)..MaxSaved : handleDeleteSaved(id)

SpecStore == StoreInit /\ [][NextStore]_vars

\* the stored history is an array (absent: the empty one)
StoresArray(item) ==
  item.kind \in {"unset", "empty"} \/ (item.kind = "json" /\ item.value.t = "array")

\* the entries of such a history
Entries(item) == IF item.kind = "json" THEN item.value.items ELSE <<>>

\* at most HISTORY_KEPT + 1 entries, the most recent first
BoundedRecentFirst(items) ==
  /\ Len(items) <= HISTORY_KEPT + 1
  /\ \A i \in 1..(Len(items) - 1) : items[i] >= items[i + 1]

\* a step in which an analysis is saved (lines 145-153)
SaveStep == saved' = saved + 1

\* a step in which a saved analysis is deleted (lines 218-221)
DeleteStep == saved' = saved /\ storage' # storage

StoredHistoryStep ==
  StoresArray(storage) =>
    /\ StoresArray(storage')
    /\ BoundedRecentFirst(Entries(storage'))
    /\ SaveStep =>
         LET old == Entries(storage)
             new == Entries(storage')
         IN /\ storage'.kind = "json"
            /\ Len(new) = Min(Len(old) + 1, HISTORY_KEPT + 1)
            /\ new[1] \in DateNow
            /\ \A i \in 2..Len(new) : new[i] = old[i - 1]
    /\ DeleteStep =>
         LET old == Entries(storage)
             new == Entries(storage')
         IN /\ Len(new) < Len(old)
            /\ \A i, j \in 1..Len(new) :
                 i < j => \E k, l \in 1..Len(old) :
                            k < l /\ old[k] = new[i] /\ old[l] = new[j]

\* C15: starting from an absent or valid-array history, after every save
\* and delete the stored list has at most 10 entries, the most recent
\* first; a save puts the new analysis at index 0, keeps the previous
\* entries in their order and drops the oldest when the list held 10; a
\* delete keeps the remaining entries in their order.
C15_HistoryBounded ==
  [][StoredHistoryStep]_vars

\* a full history of 10 has received a new analysis and lost its oldest
\* entry, and an entry in the middle has then been deleted
C15_Witness ==
  /\ storage.kind = "json"
  /\ storage.value.t = "array"
  /\ storage.value.items =
       <<1>> \o [i \in 1..(HISTORY_KEPT - 1) |->
                  IF i < 4 THEN 1 - i ELSE -i]

\* C16: whatever the storage key holds, getFromLocalStorage returns a list,
\* and the savedAnalyses set from it on mount, after a save and after a
\* delete is a list, on which .length and .map work.
C16_HistoryIsList ==
  /\ ui.savedAnalyses.t = "array"
  /\ call.pc # "crashed"

\* C17: when the stored history cannot be parsed, a save leaves the
\* one-element list of the new analysis in storage.
C17_SaveRecoversHistory ==
  [][(SaveStep /\ storage.kind = "garbage") =>
       \E t \in DateNow : storage' = Item("json", JsArray(<<t>>))]_vars

\* the name or the description is empty once trimmed
BlankForm ==
  Trim(ui.projectName) = <<>> \/ Trim(ui.projectDescription) = <<>>

\* C18: handleSubmit on a form whose name or description is empty after
\* trimming sets the validation error and returns: no request is sent,
\* isLoading stays false, and scores, rateLimitInfo, retryCountdown, the
\* saved analyses and the stored history are unchanged.
C18_BlankFormRejected ==
  [][(handleSubmit /\ BlankForm) =>
       /\ ui'.error = Some("validation")
       /\ call' = call
       /\ call'.pc = "idle"
       /\ ~ui.isLoading /\ ~ui'.isLoading
       /\ ui'.scores = ui.scores
       /\ ui'.rateLimitInfo = ui.rateLimitInfo
       /\ ui'.retryCountdown = ui.retryCountdown
       /\ ui'.savedAnalyses = ui.savedAnalyses
       /\ storage' = storage]_vars

\* after an analysis and a rate-limited submission whose countdown has run
\* out, a form with a blank name has been submitted and rejected
C18_Witness ==
  /\ ui.error = Some("validation")
  /\ ui.projectName = <<" ">>
  /\ ui.projectDescription = <<"a">>
  /\ ui.scores # Null
  /\ ui.rateLimitInfo # Null
  /\ ui.rateLimitInfo[1].retryAfter # Null
  /\ call.pc = "idle"

(***************************************************************************)
(* The scores of a 200 response (route lines 159-167).  A parsed number is *)
(* [nan, neg, int, frac]: NaN, or the sign, the integer part and the       *)
(* digits of the fraction.  Exponents and "Infinity" are not in the texts  *)
(* enumerated.                                                             *)
(***************************************************************************)
\* longest text of a score generation
MaxText == 3

Digits == {"0", "8"}

DigitValue(c) == IF c = "8" THEN 8 ELSE 0

NaN == [nan |-> TRUE, neg |-> FALSE, int |-> 0, frac |-> <<>>]

\* the longest prefix of s made of digits
RECURSIVE DigitRun(_)
DigitRun(s) ==
  IF s # <<>> /\ Head(s) \in Digits THEN <<Head(s)>> \o DigitRun(Tail(s))
  ELSE <<>>

RECURSIVE DecimalValue(_)
DecimalValue(ds) ==
  IF ds = <<>> THEN 0
  ELSE 10 * DecimalValue(SubSeq(ds, 1, Len(ds) - 1)) + DigitValue(ds[Len(ds)])

Drop(s, n) == SubSeq(s, n + 1, Len(s))

\* Number.parseFloat(s): leading white space is skipped and the longest
\* prefix that is a decimal literal is converted; NaN when there is none
parseFloat(s) ==
  LET t      == TrimStart(s)
      neg    == t # <<>> /\ Head(t) = "-"
      body   == IF neg THEN Tail(t) ELSE t
      int    == DigitRun(body)
      rest   == Drop(body, Len(int))
      frac   == IF rest # <<>> /\ Head(rest) = "." THEN DigitRun(Tail(rest))
                ELSE <<>>
  IN IF int = <<>> /\ frac = <<>> THEN NaN
     ELSE [nan |-> FALSE, neg |-> neg, int |-> DecimalValue(int),
           frac |-> frac]

\* Number.parseFloat(response.text ?? "0")
Score(text) == parseFloat(IF text.present THEN text.val ELSE <<"0">>)

ScoreChars == {"8", ".", "-", " ", "x"}

RECURSIVE TextsUpTo(_, _)
TextsUpTo(chars, n) ==
  IF n = 0 THEN {<<>>}
  ELSE LET shorter == TextsUpTo(chars, n - 1)
       IN shorter \cup {Append(s, c) : s \in shorter, c \in chars}

\* the text of a generateContent response: undefined or a string
ScoreTexts == {Absent} \cup {Val(s) : s \in TextsUpTo(ScoreChars, MaxText)}

ScoreInit ==
  /\ LimiterInit
  /\ inHeaders = NoHeaders
  /\ outKey = NoKey
  /\ PageIdle
  /\ modelText \in ScoreTexts
  /\ outScore = Null
  /\ outList = Null

\* one of the six scores is parsed (lines 160-167)
ParseScore ==
  /\ outScore = Null
  /\ outScore' = Some(Score(modelText))
  /\ UNCHANGED <<modelText, outList, limiterVars, keyVars, pageVars>>

NextScore == ParseScore

SpecScore == ScoreInit /\ [][NextScore]_vars

\* C19: each score of a 200 response is a number whatever the text of the
\* generation; it is 0 when the text is missing and when the text cannot be
\* parsed as a number.
C19_ScoreNumberOrZero ==
  outScore # Null =>
    /\ ~outScore[1].nan
    /\ ~modelText.present =>
         outScore[1] = [nan |-> FALSE, neg |-> FALSE, int |-> 0, frac |-> <<>>]

(***************************************************************************)
(* The feedback lists of a 200 response (route lines 235-260)              *)
(***************************************************************************)
\* most lines of the text of a feedback generation
MaxLines == 4

NewLine == "\n"

\* s.split("\n")
RECURSIVE SplitLines(_)
SplitLines(s) ==
  LET first == CHOOSE n \in 0..Len(s) :
                 /\ n = Len(s) \/ s[n + 1] = NewLine
                 /\ \A i \in 1..n : s[i] # NewLine
  IN IF first = Len(s) THEN <<s>>
     ELSE <<SubSeq(s, 1, first)>> \o SplitLines(Drop(s, first + 1))

\* line.match(/^\d+\.?\s/): digits, an optional dot, then white space
Numbered(line) ==
  LET n    == Len(DigitRun(line))
      rest == Drop(line, n)
      tail == IF rest # <<>> /\ Head(rest) = "." THEN Tail(rest) ELSE rest
  IN n > 0 /\ tail # <<>> /\ Head(tail) = " "

RECURSIVE MapTrim(_)
MapTrim(lines) ==
  IF lines = <<>> THEN <<>>
  ELSE <<Trim(Head(lines))>> \o MapTrim(Tail(lines))

RECURSIVE FilterLines(_)
FilterLines(lines) ==
  IF lines = <<>> THEN <<>>
  ELSE IF Len(Head(lines)) > 0 /\ ~Numbered(Head(lines))
  THEN <<Head(lines)>> \o FilterLines(Tail(lines))
  ELSE FilterLines(Tail(lines))

\* parseTextToArray without .slice(0, 3)
parseTextToArray_noSlice(text) ==
  FilterLines(MapTrim(SplitLines(text)))

parseTextToArray(text) ==
  Slice(FilterLines(MapTrim(SplitLines(text))), 3)

\* the canned entry of a list (lines 253, 256, 259)
Canned(field) ==
  IF field = "strengths" THEN <<"Project shows potential in multiple areas">>
  ELSE IF field = "improvements"
  THEN <<"Consider refining areas with lower scores">>
  ELSE <<"Focus on strengthening core value proposition">>

\* feedback[field] as it is in the response (lines 244-260)
FeedbackList(field, text) ==
  LET parsed == parseTextToArray(IF text.present THEN text.val ELSE <<>>)
  IN IF Len(parsed) = 0 THEN <<Canned(field)>> ELSE parsed

FeedbackFields == {"strengths", "improvements", "recommendations"}

\* the lines that the enumerated texts are made of
SampleLines ==
  { <<>>, <<" ">>, <<"a">>, <<" ", "a", " ">>, <<"8", ".", " ", "a">>,
    <<"8", " ", "a">>, <<"8", ".", "a">>, <<"8", ".", " ">> }

RECURSIVE Joined(_)
Joined(n) ==
  IF n = 1 THEN SampleLines
  ELSE Joined(n - 1) \cup
       {t \o <<NewLine>> \o l : t \in Joined(n - 1), l \in SampleLines}

FeedbackTexts == {Absent} \cup {Val(t) : t \in Joined(MaxLines)}

FeedbackInit ==
  /\ LimiterInit
  /\ inHeaders = NoHeaders
  /\ outKey = NoKey
  /\ PageIdle
  /\ modelText \in FeedbackTexts
  /\ outScore = Null
  /\ outList = Null

\* one of the three lists is built (lines 244-260)
ParseFeedback(field) ==
  /\ outList = Null
  /\ outList' = Some([field |-> field, items |-> FeedbackList(field, modelText)])
  /\ UNCHANGED <<modelText, outScore, limiterVars, keyVars, pageVars>>

NextFeedback == \E field \in FeedbackFields : ParseFeedback(field)

SpecFeedback == FeedbackInit /\ [][NextFeedback]_vars

\* the trimmed lines of the text that are not empty and not numbered
KeptLines(text) ==
  IF text.present THEN FilterLines(MapTrim(SplitLines(text.val))) ELSE <<>>

\* C20: each feedback list of a 200 response has at least 1 and at most 3
\* entries whatever the text of the generation: the first three of the
\* lines that are kept, or the one canned entry when no line is kept.
C20_FeedbackOneToThree ==
  outList # Null =>
    LET items == outList[1].items
        kept  == KeptLines(modelText)
    IN /\ Len(items) >= 1
       /\ Len(items) <= 3
       /\ kept = <<>> => items = <<Canned(outList[1].field)>>
       /\ kept # <<>> =>
            /\ Len(items) = Min(3, Len(kept))
            /\ \A i \in 1..Len(items) : items[i] = kept[i] /\ items[i] # <<>>

\* a text of four lines that are all kept, among them "8." left of "8. "
\* by the trimming, has given a list of three
C20_Witness ==
  /\ outList # Null
  /\ Len(KeptLines(modelText)) = 4
  /\ KeptLines(modelText)[4] = <<"8", ".">>
  /\ Len(outList[1].items) = 3

\* a step in which the body of a 429 response has been read and carries a
\* retryAfter
RetryAfterReadStep ==
  /\ call.pc = "json429"
  /\ call'.pc = "idle"
  /\ call'.outcome = "rate"
  /\ call'.retryAfter # Null

\* C21: when the body of a 429 response carries retryAfter = r, for every r
\* that POST can send, the countdown starts at r and r is what the message
\* and rateLimitInfo report; the default of 60 is for a body without
\* retryAfter or one that cannot be read.
C21_CountdownIsRetryAfter ==
  [][RetryAfterReadStep =>
       /\ ui'.retryCountdown = call'.retryAfter
       /\ ui'.rateLimitInfo # Null
       /\ ui'.rateLimitInfo[1].retryAfter = call'.retryAfter]_vars

\* a step in which a request that handleClear has overtaken goes on
ClearedStep ==
  (InFlight /\ call.cleared /\ call'.pc # call.pc) =>
    /\ ui'.scores = ui.scores
    /\ saved' = saved
    /\ storage' = storage
    /\ ui'.savedAnalyses = ui.savedAnalyses

\* C26: once handleClear has run while a request was awaiting its response,
\* the completion of that request neither sets scores nor adds an entry to
\* the saved history.
C26_ClearOutlastsResponse ==
  [][ClearedStep]_vars

\* a step in which handleDeleteSaved(id) has run on a valid history that
\* holds id
DeleteSavedStep ==
  /\ DeleteStep
  /\ StoresArray(storage)

\* the ids of a list are pairwise distinct
DistinctIds(items) ==
  \A i, j \in 1..Len(items) : i # j => items[i] # items[j]

\* C27: a delete on a valid history removes exactly one entry and keeps
\* the others in their order; equivalently the ids of a valid history are
\* pairwise distinct.
C27_DeleteRemovesOne ==
  [][/\ DeleteSavedStep => Len(Entries(storage')) = Len(Entries(storage)) - 1
     /\ StoresArray(storage) => DistinctIds(Entries(storage'))]_vars

====
